---------------------------- MODULE Spec2Model ----------------------------
(***************************************************************************)
(* A model of truthiness/truthtable.py: the condition classes, the        *)
(* condition ordering (sortConditions), the two domains' checkCoverage    *)
(* and the TruthTable (addCondition, evaluate, findGaps).                 *)
(*                                                                         *)
(* Python values are encoded as follows.                                  *)
(*   - a condition object is a record [type, value] (the six simple       *)
(*     operator conditions) or [type, min, max] (RangeCondition); record  *)
(*     equality is the classes' __eq__ (type and stored values; sort_key  *)
(*     is a function of them);                                            *)
(*   - the result of lowest()/highest() is None (the empty tuple) or the  *)
(*     one-tuple <<n>> of the integer n;                                  *)
(*   - True and False are the integers 1 and 0, as they are for Python's  *)
(*     ==, hash and set membership;                                       *)
(*   - the outcome of a call is Return(v) or Raise(exception name); a     *)
(*     call that returns Python's None has the outcome Return(PyNone).    *)
(***************************************************************************)
EXTENDS Integers, Sequences, FiniteSets, TLC

VARIABLES
    columns,    \* TruthTable.columns: the declared Variables, in list order
    table,      \* TruthTable._table: the rows, in insertion order
    op,         \* the name of the last call made ("init" before any)
    args,       \* the arguments of the last call
    ret,        \* the outcome of the last call
    prev        \* the outcome of the checkCoverage call made just before a
                \* second call on the same conditions in another order

vars == <<columns, table, op, args, ret, prev>>

---------------------------------------------------------------------------
\* Bounds of the model.

\* Condition values range over 0..MaxVal.
MaxVal == 2
\* The lists of conditions handed to the pure functions have at most MaxLen
\* elements.
MaxLen == 2
\* A table holds at most MaxRows rows.
MaxRows == 2

---------------------------------------------------------------------------
\* Outcomes of calls.

None == <<>>
Some(n) == <<n>>
Return(v) == [kind |-> "return", value |-> v]
Raise(e) == [kind |-> "raise", value |-> e]
\* Python's None as the value a call returns (evaluate falling off its loop,
\* addCondition): row results are opaque strings, and this one no row uses.
PyNone == "None"

---------------------------------------------------------------------------
\* The condition classes.

GT(v) == [type |-> "GT", value |-> v]
LT(v) == [type |-> "LT", value |-> v]
GTE(v) == [type |-> "GTE", value |-> v]
LTE(v) == [type |-> "LTE", value |-> v]
EQ(v) == [type |-> "EQ", value |-> v]
NE(v) == [type |-> "NE", value |-> v]
\* RangeCondition.__init__ asserts min <= max; callers test RangeOK first.
RangeCondition(min, max) == [type |-> "Range", min |-> min, max |-> max]
RangeOK(min, max) == min <= max

sort_key(c) == IF c.type = "Range" THEN c.min ELSE c.value

lowest(c) ==
    CASE c.type = "GT" -> Some(c.value + 1)
      [] c.type = "LT" -> None
      [] c.type = "GTE" -> Some(c.value)
      [] c.type = "LTE" -> None
      [] c.type = "Range" -> Some(c.min)
      [] c.type = "EQ" -> Some(c.value)
      [] c.type = "NE" -> None

highest(c) ==
    CASE c.type = "GT" -> None
      [] c.type = "LT" -> Some(c.value - 1)
      [] c.type = "GTE" -> None
      [] c.type = "LTE" -> Some(c.value)
      [] c.type = "Range" -> Some(c.max)
      [] c.type = "EQ" -> Some(c.value)
      [] c.type = "NE" -> None

\* cond.matches(other)
matches(c, other) ==
    CASE c.type = "GT" -> other > c.value
      [] c.type = "LT" -> other < c.value
      [] c.type = "GTE" -> other >= c.value
      [] c.type = "LTE" -> other <= c.value
      [] c.type = "Range" -> other >= c.min /\ other <= c.max
      [] c.type = "EQ" -> other = c.value
      [] c.type = "NE" -> other # c.value

---------------------------------------------------------------------------
\* sortConditions.

\* The loop of sortConditions: an InequalityCondition is replaced by a
\* LessThanCondition and a GreaterThanCondition, in that order.
RECURSIVE real_conds(_)
real_conds(conds) ==
    IF conds = <<>> THEN <<>>
    ELSE LET cond == Head(conds)
         IN  (IF cond.type = "NE"
              THEN <<LT(cond.value), GT(cond.value)>>
              ELSE <<cond>>) \o real_conds(Tail(conds))

\* The key as lowest() where it is defined, not the raw sort_key.
SortKeyByLowest(c) == IF lowest(c) = None THEN sort_key(c) ELSE lowest(c)[1]
\* Line 51: key=lambda x: x.sort_key.
sorted_key(c) == sort_key(c)

\* One step of a stable sort: c goes after every element whose key is not
\* greater than its own.
InsertByKey(s, c) ==
    LET n == Cardinality({i \in 1..Len(s) : sorted_key(s[i]) <= sorted_key(c)})
    IN  SubSeq(s, 1, n) \o <<c>> \o SubSeq(s, n + 1, Len(s))

\* sorted(real_conds, key=...): Python's sort is stable.
RECURSIVE sorted(_)
sorted(s) ==
    IF s = <<>> THEN <<>>
    ELSE InsertByKey(sorted(SubSeq(s, 1, Len(s) - 1)), s[Len(s)])

sortConditions(conds) == sorted(real_conds(conds))

---------------------------------------------------------------------------
\* IntDomain.checkCoverage.

\* Lines 75-79: the gap below the first condition; None when that condition
\* has no lowest().
\* (PreGapNotNice: the same without the GreaterThan case.)
PreGapNotNice(conditions) ==
    IF lowest(conditions[1]) # None
    THEN Some(LT(lowest(conditions[1])[1]))
    ELSE None
pre_gap(conditions) ==
    IF lowest(conditions[1]) # None
    THEN IF conditions[1].type = "GT"
         THEN Some(LTE(lowest(conditions[1])[1] - 1))
         ELSE Some(LT(lowest(conditions[1])[1]))
    ELSE None

\* Lines 81-85: the gap above the last condition; None when that condition
\* has no highest().
\* (PostGapNotNice: the same without the LessThan case.)
PostGapNotNice(conditions) ==
    LET last == conditions[Len(conditions)]
    IN  IF highest(last) # None THEN Some(GT(highest(last)[1])) ELSE None
post_gap(conditions) ==
    LET last == conditions[Len(conditions)]
    IN  IF highest(last) # None
        THEN IF last.type = "LT"
             THEN Some(GTE(highest(last)[1] + 1))
             ELSE Some(GT(highest(last)[1]))
        ELSE None

\* Lines 87-91: None is the empty tuple and Some(gap) the one-tuple, so the
\* insert at 0 and the append are concatenations.
hypothetical_conditions(conditions) ==
    pre_gap(conditions) \o conditions \o post_gap(conditions)

\* Lines 95-103: the loop over hypothetical_conditions[1:], from its i-th
\* element on, with the gaps found so far.  The outcome is Return(gaps), or
\* the exception raised by None - 1 (TypeError) or by RangeCondition's
\* assertion (AssertionError).
RECURSIVE Sweep(_, _, _, _)
Sweep(hyp, i, highest_covered, gaps) ==
    IF i > Len(hyp) THEN Return(gaps)
    ELSE IF highest_covered = None THEN Return(gaps)
    ELSE LET condition == hyp[i]
             hc == highest_covered[1]
         IN  IF lowest(condition) = None THEN Raise("TypeError")
             ELSE LET lo == lowest(condition)[1]
                  IN  IF lo - 1 # hc
                      THEN IF hc + 1 = lo - 1
                           THEN Sweep(hyp, i + 1, highest(condition),
                                      Append(gaps, EQ(hc + 1)))
                           ELSE IF RangeOK(hc + 1, lo - 1)
                                THEN Sweep(hyp, i + 1, highest(condition),
                                      Append(gaps, RangeCondition(hc + 1, lo - 1)))
                                ELSE Raise("AssertionError")
                      ELSE Sweep(hyp, i + 1, highest(condition), gaps)

\* Lines 105-110.
WithEndGaps(conditions, gaps) ==
    pre_gap(conditions) \o gaps \o post_gap(conditions)

IntDomain_checkCoverage(args_) ==
    LET conditions == sortConditions(args_)
    IN  IF conditions = <<>> THEN Raise("IndexError")
        ELSE LET hyp == hypothetical_conditions(conditions)
             IN  IF highest(hyp[1]) = None THEN Raise("AssertionError")
                 ELSE LET swept == Sweep(hyp, 2, highest(hyp[1]), <<>>)
                      IN  IF swept.kind = "raise" THEN swept
                          ELSE Return(WithEndGaps(conditions, swept.value))


---------------------------------------------------------------------------
\* EnumDomain.checkCoverage and the domains.

IntDomain == [type |-> "IntDomain"]
EnumDomain(values) == [type |-> "EnumDomain", values |-> values]
BoolDomain == EnumDomain({1, 0})

\* Every order a Python set of the elements of S can be iterated in.
Orderings(S) ==
    {s \in [1..Cardinality(S) -> S] : {s[i] : i \in 1..Cardinality(S)} = S}

\* Line 32: self.values - set(other_values).
\* (UncoveredSwapped: the difference taken the other way round.)
UncoveredSwapped(self, other_values) == other_values \ self.values
uncovered_values(self, other_values) == self.values \ other_values

\* The outcomes of EnumDomain.checkCoverage: UnsupportedCondition for an
\* argument that is no EqualityCondition, else one EqualityCondition per
\* remaining value, in the set's iteration order, which Python leaves open.
EnumDomain_checkCoverage(self, args_) ==
    IF \E i \in 1..Len(args_) : args_[i].type # "EQ"
    THEN {Raise("UnsupportedCondition")}
    ELSE LET other_values == {args_[i].value : i \in 1..Len(args_)}
         IN  {Return(g) :
                g \in Orderings({EQ(x) : x \in uncovered_values(self, other_values)})}

\* domain.checkCoverage(args): the set of outcomes the call can have.
checkCoverage(domain, args_) ==
    IF domain.type = "IntDomain"
    THEN {IntDomain_checkCoverage(args_)}
    ELSE EnumDomain_checkCoverage(domain, args_)

---------------------------------------------------------------------------
\* The pure functions, applied to inputs drawn from bounded sets.

Values == 0..MaxVal
Conditions ==
    {GT(v) : v \in Values} \cup {LT(v) : v \in Values}
    \cup {GTE(v) : v \in Values} \cup {LTE(v) : v \in Values}
    \cup {EQ(v) : v \in Values} \cup {NE(v) : v \in Values}
    \cup {RangeCondition(a, b) : <<a, b>> \in {p \in Values \X Values : RangeOK(p[1], p[2])}}
CondLists == UNION {[1..n -> Conditions] : n \in 0..MaxLen}
Domains == {IntDomain, BoolDomain, EnumDomain(Values)}

\* The lists holding the elements of s in another order (or the same).
Reorderings(s) ==
    {[i \in 1..Len(s) |-> s[f[i]]] : f \in Permutations(1..Len(s))}

InitDomain ==
    /\ columns = <<>>
    /\ table = <<>>
    /\ op = "init"
    /\ args \in {[self |-> d, args |-> l] : d \in Domains, l \in CondLists}
    /\ ret = None
    /\ prev = None

\* sortConditions(args.args)
SortConditions ==
    /\ op = "init"
    /\ op' = "sortConditions"
    /\ ret' = Return(sortConditions(args.args))
    /\ UNCHANGED <<columns, table, args, prev>>

\* args.self.checkCoverage(args.args)
CheckCoverage ==
    /\ op = "init"
    /\ op' = "checkCoverage"
    /\ ret' \in checkCoverage(args.self, args.args)
    /\ UNCHANGED <<columns, table, args, prev>>

\* A second call of IntDomain.checkCoverage, on the same conditions in
\* another order; prev keeps the first call's outcome.
CheckCoverageAgain ==
    /\ op = "checkCoverage"
    /\ args.self = IntDomain
    /\ \E p \in Reorderings(args.args) :
          /\ args' = [args EXCEPT !.args = p]
          /\ ret' \in checkCoverage(args.self, p)
    /\ prev' = ret
    /\ op' = "checkCoverageAgain"
    /\ UNCHANGED <<columns, table>>

NextDomain == SortConditions \/ CheckCoverage \/ CheckCoverageAgain

SpecDomain == InitDomain /\ [][NextDomain]_vars


---------------------------------------------------------------------------
\* Variable, Row and TruthTable.

Variable(name, domain) == [name |-> name, domain |-> domain]
Row(conditions, result) == [conditions |-> conditions, result |-> result]

\* The names of the declared variables.
ColumnNames == {columns[i].name : i \in 1..Len(columns)}

\* Line 259: the assertion of addCondition.
\* (AssertNamesDeclared: only that no undeclared name is used.)
AssertNamesDeclared(values) == DOMAIN values \subseteq ColumnNames
addCondition_assert(values) == DOMAIN values = ColumnNames

\* Lines 276-281: the loop of evaluate over the rows from the i-th on.  The
\* inner loop leaves a row at its first condition that does not match, and
\* the row's result is returned when there is none.
RECURSIVE evaluate_loop(_, _, _)
evaluate_loop(rows, values, i) ==
    IF i > Len(rows) THEN Return(PyNone)
    ELSE IF \A key \in DOMAIN rows[i].conditions :
                matches(rows[i].conditions[key], values[key])
         THEN Return(rows[i].result)
         ELSE evaluate_loop(rows, values, i + 1)

\* The result of the last row that matches, not of the first.
RECURSIVE EvaluateLastMatch(_, _)
EvaluateLastMatch(rows, values) ==
    IF rows = <<>> THEN Return(PyNone)
    ELSE LET row == rows[Len(rows)]
         IN  IF \A key \in DOMAIN row.conditions :
                    matches(row.conditions[key], values[key])
             THEN Return(row.result)
             ELSE EvaluateLastMatch(SubSeq(rows, 1, Len(rows) - 1), values)
evaluate(rows, values) == evaluate_loop(rows, values, 1)

\* Line 298: [x.conditions[column.name] for x in self._table]
this_column_values(rows, name) ==
    [k \in 1..Len(rows) |-> rows[k].conditions[name]]

\* Lines 301 and 305: the conditions of other_name in the rows whose
\* condition for name equals condition.
other_column_values(rows, name, condition, other_name) ==
    LET IsCombination(row) == row.conditions[name] = condition
    IN  this_column_values(SelectSeq(rows, IsCombination), other_name)

\* Lines 300-308: the loops over the conditions (from the ci-th on) and the
\* other columns (from the j-th on), whose only effect on the caller is the
\* exception a checkCoverage call raises: Some(outcome) for the first one
\* raised, None when none is.  A domain's outcomes either all raise the same
\* exception or all return.
RECURSIVE inner_loops(_, _, _, _, _, _)
inner_loops(cols, rows, i, conds, ci, j) ==
    IF ci > Len(conds) THEN None
    ELSE IF j > Len(cols) THEN inner_loops(cols, rows, i, conds, ci + 1, 1)
    ELSE IF j = i THEN inner_loops(cols, rows, i, conds, ci, j + 1)
    ELSE LET other_column_gaps ==
                 CHOOSE o \in checkCoverage(cols[j].domain,
                     other_column_values(rows, cols[i].name, conds[ci], cols[j].name)) :
                     TRUE
         IN  IF other_column_gaps.kind = "raise"
             THEN Some(other_column_gaps)
             ELSE inner_loops(cols, rows, i, conds, ci, j + 1)

\* Lines 298-315, for the i-th column: the exception raised, or the entry
\* {column.name: this_column_gaps} appended to gaps.
column_outcomes(cols, rows, i) ==
    IF \E k \in 1..Len(rows) : cols[i].name \notin DOMAIN rows[k].conditions
    THEN {Raise("KeyError")}
    ELSE LET values == this_column_values(rows, cols[i].name)
         IN  {IF this_column_gaps.kind = "raise" THEN this_column_gaps
              ELSE LET raised == inner_loops(cols, rows, i,
                                     values \o this_column_gaps.value, 1, 1)
                   IN  IF raised # None THEN raised[1]
                       ELSE Return(cols[i].name :> this_column_gaps.value) :
              this_column_gaps \in checkCoverage(cols[i].domain, values)}

\* Lines 296-316: the loop over the columns from the i-th on.
RECURSIVE findGaps_loop(_, _, _, _)
findGaps_loop(cols, rows, i, gaps) ==
    IF i > Len(cols) THEN {Return(gaps)}
    ELSE UNION {IF o.kind = "raise" THEN {o}
                ELSE findGaps_loop(cols, rows, i + 1, Append(gaps, o.value)) :
                o \in column_outcomes(cols, rows, i)}

\* The outcomes findGaps can have.
findGaps(cols, rows) == findGaps_loop(cols, rows, 1, <<>>)

---------------------------------------------------------------------------
\* The table as a state machine.

\* The names a table may declare and a call may use.
Names == {"a", "b"}
NameOrder == <<"a", "b">>
\* The domains a table may declare.
ColumnDomains == {IntDomain, BoolDomain}
\* The conditions a call may supply, the results of rows and the values
\* evaluate is called with.
RowConditions == {EQ(0), EQ(1), GT(0)}
Results == {"woo", "werb"}
EvalValues == {0, 1}

\* Line 255: [Variable(k, v) for k, v in columns.iteritems()].  The list is in
\* the dict's iteration order, taken here to be NameOrder: the names are only
\* keys, so a table listing its variables in the other order is this one
\* with the names exchanged.
TruthTable_columns(kw) ==
    LET IsDeclared(k) == k \in DOMAIN kw
        declared == SelectSeq(NameOrder, IsDeclared)
    IN  [i \in 1..Len(declared) |-> Variable(declared[i], kw[declared[i]])]

\* TruthTable(**columns) for every choice of keyword arguments.
Init ==
    /\ columns \in {TruthTable_columns(kw) :
                      kw \in UNION {[S -> ColumnDomains] : S \in SUBSET Names}}
    /\ table = <<>>
    /\ op = "init"
    /\ args = None
    /\ ret = None
    /\ prev = None

\* addCondition(values, result)
AddCondition ==
    \E S \in SUBSET Names : \E values \in [S -> RowConditions] : \E result \in Results :
        /\ op' = "addCondition"
        /\ args' = [values |-> values, result |-> result]
        /\ IF addCondition_assert(values)
           THEN /\ Len(table) < MaxRows
                /\ table' = Append(table, Row(values, result))
                /\ ret' = Return(PyNone)
           ELSE /\ table' = table
                /\ ret' = Raise("AssertionError")
        /\ UNCHANGED <<columns, prev>>

\* evaluate(values)
Evaluate ==
    \E values \in [ColumnNames -> EvalValues] :
        /\ op' = "evaluate"
        /\ args' = [values |-> values]
        /\ ret' = evaluate(table, values)
        /\ UNCHANGED <<columns, table, prev>>

\* findGaps()
FindGaps ==
    /\ op' = "findGaps"
    /\ args' = None
    /\ ret' \in findGaps(columns, table)
    /\ UNCHANGED <<columns, table, prev>>

Next == AddCondition \/ Evaluate \/ FindGaps

Spec == Init /\ [][Next]_vars

---------------------------------------------------------------------------
\* Properties of the pure functions, under SpecDomain.

\* The integers the coverage of a gap list is compared on: the condition
\* values and two integers beyond them on either side.
Probes == (0 - 2)..(MaxVal + 2)

\* The last call was IntDomain.checkCoverage on a non-empty list.
IntCall ==
    /\ op \in {"checkCoverage", "checkCoverageAgain"}
    /\ args.self = IntDomain
    /\ args.args # <<>>

\* The number of occurrences of c in the list s.
Count(s, c) == Cardinality({i \in 1..Len(s) : s[i] = c})

\* C1: for every non-empty list of conditions, the gaps IntDomain.checkCoverage
\* returns cover exactly the uncovered integers: x is matched by some returned
\* gap if and only if x is matched by none of the input conditions.
C1_GapsExactlyCoverUncovered ==
    (IntCall /\ ret.kind = "return") =>
        \A x \in Probes :
            (\E i \in 1..Len(ret.value) : matches(ret.value[i], x))
            <=> ~(\E j \in 1..Len(args.args) : matches(args.args[j], x))

\* The complement of a single condition that names the same boundary value.
NiceComplement(c) ==
    CASE c.type = "GT" -> <<LTE(c.value)>>
      [] c.type = "GTE" -> <<LT(c.value)>>
      [] c.type = "LT" -> <<GTE(c.value)>>
      [] c.type = "LTE" -> <<GT(c.value)>>
      [] c.type = "EQ" -> <<LT(c.value), GT(c.value)>>
      [] c.type = "NE" -> <<EQ(c.value)>>
      [] c.type = "Range" -> <<LT(c.min), GT(c.max)>>

\* C2: IntDomain.checkCoverage on a single condition returns its nice
\* complement: [GT(v)] gives [LTE(v)], [GTE(v)] gives [LT(v)], [LT(v)] gives
\* [GTE(v)], [LTE(v)] gives [GT(v)], [EQ(v)] gives [LT(v), GT(v)], [NE(v)]
\* gives [EQ(v)] and [Range(a,b)] gives [LT(a), GT(b)].
C2_SingleConditionNiceComplement ==
    (IntCall /\ Len(args.args) = 1) =>
        ret = Return(NiceComplement(args.args[1]))

\* A call on the single condition GT(1) has returned [LTE(1)].
C2_Witness ==
    /\ IntCall
    /\ args.args = <<GT(1)>>
    /\ ret = Return(<<LTE(1)>>)

\* The last call was EnumDomain.checkCoverage on EqualityConditions only.
EnumCall ==
    /\ op = "checkCoverage"
    /\ args.self.type = "EnumDomain"
    /\ \A i \in 1..Len(args.args) : args.args[i].type = "EQ"

\* C4: for an EnumDomain over D and a list of EqualityConditions,
\* checkCoverage returns exactly one Equality(x) for each x in D that is the
\* value of no supplied condition, and nothing else.
C4_EnumGapsAreTheMissingValues ==
    EnumCall =>
        LET missing == {x \in args.self.values :
                          \A i \in 1..Len(args.args) : args.args[i].value # x}
        IN  /\ ret.kind = "return"
            /\ \A x \in missing : Count(ret.value, EQ(x)) = 1
            /\ \A i \in 1..Len(ret.value) :
                  \E x \in missing : ret.value[i] = EQ(x)

\* BoolDomain, given [EQ(False)], has returned [EQ(True)].
C4_Witness ==
    /\ EnumCall
    /\ args.self = BoolDomain
    /\ args.args = <<EQ(0)>>
    /\ ret = Return(<<EQ(1)>>)

\* How often c must occur in sortConditions(conds): as often as in conds,
\* plus, for a LessThan(v) or GreaterThan(v), once per Inequality(v) of conds;
\* an Inequality never.
ExpectedCount(conds, c) ==
    CASE c.type = "NE" -> 0
      [] c.type \in {"LT", "GT"} -> Count(conds, c) + Count(conds, NE(c.value))
      [] OTHER -> Count(conds, c)

\* C5: sortConditions returns a sequence ascending by sort key that holds
\* every non-Inequality input unchanged and, for every Inequality(v), exactly
\* LessThan(v) and GreaterThan(v) in its place; the input list is unmodified.
C5_SortConditionsContract ==
    [][op' = "sortConditions" =>
         /\ args' = args
         /\ ret'.kind = "return"
         /\ \A i \in 1..(Len(ret'.value) - 1) :
               sort_key(ret'.value[i]) <= sort_key(ret'.value[i + 1])
         /\ \A i \in 1..Len(ret'.value) : ret'.value[i] \in Conditions
         /\ \A c \in Conditions :
               Count(ret'.value, c) = ExpectedCount(args.args, c)]_vars

\* sortConditions has moved a condition forward and split an Inequality.
C5_Witness ==
    /\ op = "sortConditions"
    /\ args.args = <<NE(1), EQ(0)>>
    /\ ret = Return(<<EQ(0), LT(1), GT(1)>>)

\* C8: IntDomain.checkCoverage raises nothing on any non-empty input,
\* overlapping conditions included: it returns a gap list.
C8_CheckCoverageNeverRaises ==
    IntCall => ret.kind = "return"

\* The last condition of the sorted list of the last IntDomain call.
LastSorted ==
    LET s == sortConditions(args.args) IN s[Len(s)]

\* C9, as stated: when the last sorted condition has a highest(), the
\* high-end gap is GreaterThanOrEqual(v+1) if that condition is LessThan(v)
\* and GreaterThan(highest()) otherwise.
C9_HighEndGapAsStated ==
    (IntCall /\ highest(LastSorted) # None) =>
        LET gap == IF LastSorted.type = "LT"
                   THEN GTE(LastSorted.value + 1)
                   ELSE GT(highest(LastSorted)[1])
        IN  /\ post_gap(sortConditions(args.args)) = Some(gap)
            /\ ret.kind = "return" => ret.value[Len(ret.value)] = gap

\* C9, amended: when the last sorted condition has a highest(), the high-end
\* gap is GreaterThanOrEqual(v) if that condition is LessThan(v) and
\* GreaterThan(highest()) otherwise; it is the last gap returned.
C9_HighEndGapAmended ==
    (IntCall /\ highest(LastSorted) # None) =>
        LET gap == IF LastSorted.type = "LT"
                   THEN GTE(LastSorted.value)
                   ELSE GT(highest(LastSorted)[1])
        IN  /\ post_gap(sortConditions(args.args)) = Some(gap)
            /\ ret.kind = "return" => ret.value[Len(ret.value)] = gap

\* A call whose last sorted condition is LT(2) has returned GTE(2) as its
\* high-end gap.
C9_Witness ==
    /\ IntCall
    /\ LastSorted = LT(2)
    /\ ret = Return(<<GTE(2)>>)

\* C10: IntDomain.checkCoverage returns the same gap list for a non-empty
\* list of conditions and for any permutation of it.
C10_OrderIndependent ==
    (op = "checkCoverageAgain" /\ args.args # <<>>) => ret = prev

---------------------------------------------------------------------------
\* Properties of the table, under Spec.

\* The rows whose condition for every declared variable matches the values
\* of the last evaluate call.
MatchingRows ==
    {i \in 1..Len(table) :
        \A name \in ColumnNames : matches(table[i].conditions[name], args.values[name])}

\* C3: after any sequence of accepted addCondition calls, evaluate(values)
\* returns the result of the earliest-inserted row whose condition for every
\* variable matches the supplied value, even when a later row matches too,
\* and returns None when no row matches.
C3_EvaluateFirstMatchWins ==
    op = "evaluate" =>
        ret = IF MatchingRows = {} THEN Return(PyNone)
              ELSE Return(table[CHOOSE i \in MatchingRows :
                                    \A j \in MatchingRows : i <= j].result)

\* evaluate has returned the first row's result although the second row,
\* with another result, matches as well.
C3_Witness ==
    /\ op = "evaluate"
    /\ MatchingRows = {1, 2}
    /\ table[1].result # table[2].result
    /\ ret = Return(table[1].result)

\* The outcomes of the i-th variable's domain checkCoverage on the conditions
\* used in its column across all rows.
ColumnCoverage(i) ==
    checkCoverage(columns[i].domain, this_column_values(table, columns[i].name))

\* C6: for every table with at least one row, findGaps returns one entry per
\* declared variable, pairing the variable's name with exactly the result of
\* its domain's checkCoverage on the conditions of its column; an entry does
\* not depend on the other variables.  (Where a column's own checkCoverage
\* raises, so does findGaps.)
C6_FindGapsPerVariable ==
    (op = "findGaps" /\ Len(table) >= 1) =>
        IF \A i \in 1..Len(columns) : \A o \in ColumnCoverage(i) : o.kind = "return"
        THEN /\ ret.kind = "return"
             /\ Len(ret.value) = Len(columns)
             /\ \A i \in 1..Len(columns) :
                   /\ DOMAIN ret.value[i] = {columns[i].name}
                   /\ Return(ret.value[i][columns[i].name]) \in ColumnCoverage(i)
        ELSE ret.kind = "raise"

\* C7: the row list is exactly the accepted addCondition calls in call order
\* and every row's name set is the declared one; a call whose name set
\* differs is rejected and leaves the row list unchanged; no call changes or
\* removes an existing row.
C7_RowsAreTheAcceptedCalls ==
    [][/\ (op' = "addCondition" /\ DOMAIN args'.values = ColumnNames) =>
             /\ table' = Append(table, Row(args'.values, args'.result))
             /\ ret'.kind = "return"
       /\ (op' = "addCondition" /\ DOMAIN args'.values # ColumnNames) =>
             /\ table' = table
             /\ ret' = Raise("AssertionError")
       /\ op' # "addCondition" => table' = table
       /\ \A i \in 1..Len(table') : DOMAIN table'[i].conditions = ColumnNames
       /\ columns' = columns]_vars

\* A call naming only one of two declared variables has been rejected after
\* two calls were accepted.
C7_Witness ==
    /\ op = "addCondition"
    /\ Len(columns) = 2
    /\ Cardinality(DOMAIN args.values) = 1
    /\ ret = Raise("AssertionError")
    /\ Len(table) = 2

===========================================================================
